---- MODULE Spec2Model ----
(***************************************************************************)
(* Reading progress tracker: the book table, the CRUD operations of        *)
(* backend/crud.py as the HTTP handlers of backend/main.py call them, and   *)
(* the statistics query.                                                    *)
(*                                                                          *)
(* Time is one integer clock.  Every committed write happens at the time    *)
(* `clock` and the clock then advances, so two committed writes never carry *)
(* the same time.  datetime.now() and datetime.utcnow() read this one clock *)
(* (the server runs in UTC).                                                *)
(*                                                                          *)
(* Every request has a database session of its own (database.py, get_db).  *)
(* The actions of Next run a handler whole, from its query to its commit;   *)
(* NextConcurrent runs the handlers of two callers as two steps each, the   *)
(* query and the commit, under the scheduling of the event loop.            *)
(***************************************************************************)
EXTENDS Integers, FiniteSets, Sequences, TLC

VARIABLES books, clock, last, sessions

vars == <<books, clock, last, sessions>>

----------------------------------------------------------------------------
(* Bounds of the model *)

MaxBooks == 2
MaxPages == 2
MaxTime == 2

----------------------------------------------------------------------------
(* Values *)

\* A NULL column / a Python None where an integer or a time is expected.
NULL == 0 - 1
\* A Python None where a string is expected (status, notes).
None == "None"
\* A field the request body does not set (pydantic's unset).
UNSET == 0 - 2
UNSETS == "UNSET"

allowed_statuses == {"not_started", "in_progress", "completed"}

\* Request values that pass BookCreate's validation.
CreateTotalPages == 1..MaxPages
CreateCurrentPage == 0..MaxPages
CreateStatus == allowed_statuses

\* Request values that pass BookUpdate's validation; every field is Optional,
\* so None passes too.
UpdateTotalPages == (1..MaxPages) \cup {NULL, UNSET}
UpdateCurrentPage == (0..MaxPages) \cup {NULL, UNSET}
UpdateStatus == allowed_statuses \cup {None, UNSETS}
UpdateNotes == {"n2", UNSETS}

\* Request values that pass ProgressUpdate's validation.
ProgressCurrentPage == 0..(MaxPages + 1)

NotesTexts == {"n1"}

\* Identifiers a request may name: the ones the table can hold and one more.
BookIds == 1..(MaxBooks + 1)

----------------------------------------------------------------------------
(* Helpers *)

Min(a, b) == IF a < b THEN a ELSE b

NoData == [k \in {} |-> NULL]

Field(k, v, unset) == IF v = unset THEN NoData ELSE (k :> v)

\* BookUpdate.model_dump(exclude_unset=True): only the fields the request set.
model_dump(tp, cp, st, nt) ==
    Field("total_pages", tp, UNSET) @@ Field("current_page", cp, UNSET)
        @@ Field("status", st, UNSETS) @@ Field("notes", nt, UNSETS)

\* Every request body PUT /books/{book_id} accepts.
UpdateRequests ==
    {model_dump(tp, cp, st, nt) :
        tp \in UpdateTotalPages, cp \in UpdateCurrentPage,
        st \in UpdateStatus, nt \in UpdateNotes}

\* A request update_book cannot commit: comparing a None current_page or
\* total_pages raises TypeError (line 108), and a None total_pages violates
\* the column's NOT NULL (models.py line 17) at commit.
update_raises(update_data) ==
    \/ "current_page" \in DOMAIN update_data /\ update_data["current_page"] = NULL
    \/ "total_pages" \in DOMAIN update_data /\ update_data["total_pages"] = NULL

RaisingRequests == {update_data \in UpdateRequests : update_raises(update_data)}

CommittingRequests == UpdateRequests \ RaisingRequests

\* The primary key SQLite gives a new row: one more than the largest stored.
NewId(db) == IF DOMAIN db = {} THEN 1
             ELSE (CHOOSE m \in DOMAIN db : \A i \in DOMAIN db : i <= m) + 1

----------------------------------------------------------------------------
(* crud.py, one operator per function: the row each one commits *)

\* create_book without its "db_book.current_page = db_book.total_pages" of
\* line 23.
create_book_keeps_page(id, total_pages, current_page, status, now) ==
    LET db_book == [id |-> id, total_pages |-> total_pages,
                    current_page |-> current_page, status |-> status,
                    notes |-> None, started_at |-> NULL, completed_at |-> NULL,
                    created_at |-> now, updated_at |-> now]
        b1 == IF db_book.status = "in_progress" /\ db_book.started_at = NULL
              THEN [db_book EXCEPT !.started_at = now]
              ELSE db_book
        b2 == IF b1.status = "completed" /\ b1.completed_at = NULL
              THEN [b1 EXCEPT !.completed_at = now]
              ELSE b1
    IN  b2

create_book(id, total_pages, current_page, status, now) ==
    LET db_book == [id |-> id, total_pages |-> total_pages,
                    current_page |-> current_page, status |-> status,
                    notes |-> None, started_at |-> NULL, completed_at |-> NULL,
                    created_at |-> now, updated_at |-> now]
        b1 == IF db_book.status = "in_progress" /\ db_book.started_at = NULL
              THEN [db_book EXCEPT !.started_at = now]
              ELSE db_book
        b2 == IF b1.status = "completed" /\ b1.completed_at = NULL
              THEN [b1 EXCEPT !.completed_at = now,
                              !.current_page = b1.total_pages]
              ELSE b1
    IN  b2

\* update_status_step without lines 89-91: a move to in_progress stamps no
\* started_at.
update_status_step_no_start(db_book, update_data, now) ==
    IF "status" \in DOMAIN update_data
    THEN LET new_status == update_data["status"]
             b1 == db_book
             b2 == IF new_status = "completed" /\ b1.status # "completed"
                   THEN LET c == [b1 EXCEPT !.completed_at = now]
                        IN  IF "current_page" \notin DOMAIN update_data
                            THEN [c EXCEPT !.current_page = c.total_pages]
                            ELSE c
                   ELSE b1
         IN  b2
    ELSE db_book

\* Lines 85-98: the status given in the request.
update_status_step(db_book, update_data, now) ==
    IF "status" \in DOMAIN update_data
    THEN LET new_status == update_data["status"]
             b1 == IF new_status = "in_progress" /\ db_book.status # "in_progress"
                      /\ db_book.started_at = NULL
                   THEN [db_book EXCEPT !.started_at = now]
                   ELSE db_book
             b2 == IF new_status = "completed" /\ b1.status # "completed"
                   THEN LET c == [b1 EXCEPT !.completed_at = now]
                        IN  IF "current_page" \notin DOMAIN update_data
                            THEN [c EXCEPT !.current_page = c.total_pages]
                            ELSE c
                   ELSE b1
         IN  b2
    ELSE db_book

\* update_page_step resetting the row at page 0 as update_book_progress does
\* (lines 140-143): started_at and completed_at are cleared.
update_page_step_resets_times(db_book, update_data, now) ==
    IF "current_page" \in DOMAIN update_data
    THEN LET current_page == update_data["current_page"]
             total_pages == IF "total_pages" \in DOMAIN update_data
                            THEN update_data["total_pages"]
                            ELSE db_book.total_pages
             nostatus == "status" \notin DOMAIN update_data
         IN  IF current_page = 0 /\ nostatus
             THEN [db_book EXCEPT !.status = "not_started",
                                  !.started_at = NULL, !.completed_at = NULL]
             ELSE IF current_page > 0 /\ current_page < total_pages /\ nostatus
             THEN [db_book EXCEPT !.status = "in_progress",
                                  !.started_at = IF @ = NULL THEN now ELSE @]
             ELSE IF current_page >= total_pages /\ nostatus
             THEN [db_book EXCEPT !.status = "completed",
                                  !.completed_at = IF @ = NULL THEN now ELSE @]
             ELSE db_book
    ELSE db_book

\* update_page_step without the update_data.get of line 103: the page is
\* compared with the row's total_pages.
update_page_step_row_total(db_book, update_data, now) ==
    IF "current_page" \in DOMAIN update_data
    THEN LET current_page == update_data["current_page"]
             total_pages == db_book.total_pages
             nostatus == "status" \notin DOMAIN update_data
         IN  IF current_page = 0 /\ nostatus
             THEN [db_book EXCEPT !.status = "not_started"]
             ELSE IF current_page > 0 /\ current_page < total_pages /\ nostatus
             THEN [db_book EXCEPT !.status = "in_progress",
                                  !.started_at = IF @ = NULL THEN now ELSE @]
             ELSE IF current_page >= total_pages /\ nostatus
             THEN [db_book EXCEPT !.status = "completed",
                                  !.completed_at = IF @ = NULL THEN now ELSE @]
             ELSE db_book
    ELSE db_book

\* update_page_step without its tests of "status" not in update_data: the
\* status is derived from the page even when the request gives one.
update_page_step_always_derives(db_book, update_data, now) ==
    IF "current_page" \in DOMAIN update_data
    THEN LET current_page == update_data["current_page"]
             total_pages == IF "total_pages" \in DOMAIN update_data
                            THEN update_data["total_pages"]
                            ELSE db_book.total_pages
         IN  IF current_page = 0
             THEN [db_book EXCEPT !.status = "not_started"]
             ELSE IF current_page > 0 /\ current_page < total_pages
             THEN [db_book EXCEPT !.status = "in_progress",
                                  !.started_at = IF @ = NULL THEN now ELSE @]
             ELSE IF current_page >= total_pages
             THEN [db_book EXCEPT !.status = "completed",
                                  !.completed_at = IF @ = NULL THEN now ELSE @]
             ELSE db_book
    ELSE db_book

\* Lines 101-115: the status derived from the current_page of the request.
update_page_step(db_book, update_data, now) ==
    IF "current_page" \in DOMAIN update_data
    THEN LET current_page == update_data["current_page"]
             total_pages == IF "total_pages" \in DOMAIN update_data
                            THEN update_data["total_pages"]
                            ELSE db_book.total_pages
             nostatus == "status" \notin DOMAIN update_data
         IN  IF current_page = 0 /\ nostatus
             THEN [db_book EXCEPT !.status = "not_started"]
             ELSE IF current_page > 0 /\ current_page < total_pages /\ nostatus
             THEN [db_book EXCEPT !.status = "in_progress",
                                  !.started_at = IF @ = NULL THEN now ELSE @]
             ELSE IF current_page >= total_pages /\ nostatus
             THEN [db_book EXCEPT !.status = "completed",
                                  !.completed_at = IF @ = NULL THEN now ELSE @]
             ELSE db_book
    ELSE db_book

\* Lines 118-119: every field of the request overwrites the row's.
update_setattr(db_book, update_data) ==
    [f \in DOMAIN db_book |->
        IF f \in DOMAIN update_data THEN update_data[f] ELSE db_book[f]]

update_book(db_book, update_data, now) ==
    LET b1 == update_status_step(db_book, update_data, now)
        b2 == update_page_step(b1, update_data, now)
        b3 == update_setattr(b2, update_data)
    IN  [b3 EXCEPT !.updated_at = now]

\* update_book_progress with page 0 handled as update_book handles it: the
\* status is reset and the times are left alone.
update_book_progress_keeps_times(db_book, requested, now) ==
    LET current_page == Min(requested, db_book.total_pages)
        b0 == [db_book EXCEPT !.current_page = current_page]
        b1 == IF current_page = 0
              THEN [b0 EXCEPT !.status = "not_started"]
              ELSE IF current_page < b0.total_pages
              THEN [b0 EXCEPT !.status = "in_progress",
                              !.started_at = IF @ = NULL THEN now ELSE @,
                              !.completed_at = NULL]
              ELSE [b0 EXCEPT !.status = "completed",
                              !.started_at = IF @ = NULL THEN now ELSE @,
                              !.completed_at = IF @ = NULL THEN now ELSE @]
    IN  [b1 EXCEPT !.updated_at = now]

\* update_book_progress without its "if not db_book.completed_at" (line 153).
update_book_progress_restamps_completed(db_book, requested, now) ==
    LET current_page == Min(requested, db_book.total_pages)
        b0 == [db_book EXCEPT !.current_page = current_page]
        b1 == IF current_page = 0
              THEN [b0 EXCEPT !.status = "not_started",
                              !.started_at = NULL,
                              !.completed_at = NULL]
              ELSE IF current_page < b0.total_pages
              THEN [b0 EXCEPT !.status = "in_progress",
                              !.started_at = IF @ = NULL THEN now ELSE @,
                              !.completed_at = NULL]
              ELSE [b0 EXCEPT !.status = "completed",
                              !.started_at = IF @ = NULL THEN now ELSE @,
                              !.completed_at = now]
    IN  [b1 EXCEPT !.updated_at = now]

\* update_book_progress without its "if not db_book.started_at" (lines 146
\* and 151).
update_book_progress_restamps_started(db_book, requested, now) ==
    LET current_page == Min(requested, db_book.total_pages)
        b0 == [db_book EXCEPT !.current_page = current_page]
        b1 == IF current_page = 0
              THEN [b0 EXCEPT !.status = "not_started",
                              !.started_at = NULL,
                              !.completed_at = NULL]
              ELSE IF current_page < b0.total_pages
              THEN [b0 EXCEPT !.status = "in_progress",
                              !.started_at = now,
                              !.completed_at = NULL]
              ELSE [b0 EXCEPT !.status = "completed",
                              !.started_at = now,
                              !.completed_at = IF @ = NULL THEN now ELSE @]
    IN  [b1 EXCEPT !.updated_at = now]

\* update_book_progress without the min() of line 136.
update_book_progress_unclamped(db_book, requested, now) ==
    LET current_page == requested
        b0 == [db_book EXCEPT !.current_page = current_page]
        b1 == IF current_page = 0
              THEN [b0 EXCEPT !.status = "not_started",
                              !.started_at = NULL, !.completed_at = NULL]
              ELSE IF current_page < b0.total_pages
              THEN [b0 EXCEPT !.status = "in_progress",
                              !.started_at = IF @ = NULL THEN now ELSE @,
                              !.completed_at = NULL]
              ELSE [b0 EXCEPT !.status = "completed",
                              !.started_at = IF @ = NULL THEN now ELSE @,
                              !.completed_at = IF @ = NULL THEN now ELSE @]
    IN  [b1 EXCEPT !.updated_at = now]

\* update_book_progress without its "db_book.completed_at = None" of line 148.
update_book_progress_keeps_completed(db_book, requested, now) ==
    LET current_page == Min(requested, db_book.total_pages)
        b0 == [db_book EXCEPT !.current_page = current_page]
        b1 == IF current_page = 0
              THEN [b0 EXCEPT !.status = "not_started",
                              !.started_at = NULL, !.completed_at = NULL]
              ELSE IF current_page < b0.total_pages
              THEN [b0 EXCEPT !.status = "in_progress",
                              !.started_at = IF @ = NULL THEN now ELSE @]
              ELSE [b0 EXCEPT !.status = "completed",
                              !.started_at = IF @ = NULL THEN now ELSE @,
                              !.completed_at = IF @ = NULL THEN now ELSE @]
    IN  [b1 EXCEPT !.updated_at = now]

update_book_progress(db_book, requested, now) ==
    LET current_page == Min(requested, db_book.total_pages)
        b0 == [db_book EXCEPT !.current_page = current_page]
        b1 == IF current_page = 0
              THEN [b0 EXCEPT !.status = "not_started",
                              !.started_at = NULL,
                              !.completed_at = NULL]
              ELSE IF current_page < b0.total_pages
              THEN [b0 EXCEPT !.status = "in_progress",
                              !.started_at = IF @ = NULL THEN now ELSE @,
                              !.completed_at = NULL]
              ELSE [b0 EXCEPT !.status = "completed",
                              !.started_at = IF @ = NULL THEN now ELSE @,
                              !.completed_at = IF @ = NULL THEN now ELSE @]
    IN  [b1 EXCEPT !.updated_at = now]

\* update_book_notes treating a first note as the start of the reading.
update_book_notes_starts(db_book, notes, now) ==
    [db_book EXCEPT !.notes = notes, !.updated_at = now,
                    !.started_at = IF @ = NULL THEN now ELSE @]

update_book_notes(db_book, notes, now) ==
    [db_book EXCEPT !.notes = notes, !.updated_at = now]

delete_book(db, book_id) == [i \in DOMAIN db \ {book_id} |-> db[i]]

----------------------------------------------------------------------------
(* crud.get_reading_stats *)

RECURSIVE SumOver(_, _)
\* SQL SUM of f[i] over the rows S (0 where the code reads "or 0").
SumOver(f, S) ==
    IF S = {} THEN 0
    ELSE LET i == CHOOSE x \in S : TRUE IN f[i] + SumOver(f, S \ {i})

RECURSIVE ProductOver(_, _)
ProductOver(f, S) ==
    IF S = {} THEN 1
    ELSE LET i == CHOOSE x \in S : TRUE IN f[i] * ProductOver(f, S \ {i})

\* Python's round(a / b, 2) of a non-negative quotient, in hundredths:
\* the nearest integer to 100a/b, a tie going to the even one.
Round2(a, b) ==
    LET n == 100 * a
        q == n \div b
        r == n % b
    IN  IF 2 * r < b THEN q
        ELSE IF 2 * r > b THEN q + 1
        ELSE IF q % 2 = 0 THEN q ELSE q + 1

\* Lines 197-202: the GROUP BY rows as a dict, one key per status stored.
status_dict(db) ==
    [status \in {db[i].status : i \in DOMAIN db} |->
        Cardinality({i \in DOMAIN db : db[i].status = status})]

\* dict.get(key, default)
dict_get(d, key, default) == IF key \in DOMAIN d THEN d[key] ELSE default

\* The sum of total_pages, where line 209 sums current_page.
total_pages_read_of_total(db) ==
    SumOver([i \in DOMAIN db |-> db[i].total_pages], DOMAIN db)

\* Line 209: SUM(current_page), or 0 for no row.
total_pages_read(db) ==
    SumOver([i \in DOMAIN db |-> db[i].current_page], DOMAIN db)

\* total_progress without the factor 100.0: fractions, not percentages.
total_progress_fraction(db) ==
    LET rows == {i \in DOMAIN db : db[i].total_pages > 0}
        den == ProductOver([i \in rows |-> db[i].total_pages], rows)
        num == SumOver([i \in rows |->
                          db[i].current_page * (den \div db[i].total_pages)],
                       rows)
    IN  <<num, den>>

\* Lines 214-221: the sum of (current_page * 100.0) / total_pages over the rows
\* with total_pages > 0 (the others add 0), as the exact fraction
\* <<numerator, denominator>>.
total_progress(db) ==
    LET rows == {i \in DOMAIN db : db[i].total_pages > 0}
        den == ProductOver([i \in rows |-> db[i].total_pages], rows)
        num == SumOver([i \in rows |->
                          (db[i].current_page * 100) * (den \div db[i].total_pages)],
                       rows)
    IN  <<num, den>>

\* average_progress is kept in hundredths of a percent (7500 is 75.0).
get_reading_stats(db) ==
    LET total_books == Cardinality(DOMAIN db)
        sd == status_dict(db)
        tp == total_progress(db)
    IN  [total_books |-> total_books,
         books_in_progress |-> dict_get(sd, "in_progress", 0),
         books_completed |-> dict_get(sd, "completed", 0),
         books_not_started |-> dict_get(sd, "not_started", 0),
         total_pages_read |-> total_pages_read(db),
         average_progress |-> IF total_books > 0
                              THEN Round2(tp[1], tp[2] * total_books)
                              ELSE 0]

----------------------------------------------------------------------------
(* State *)

NoStats == [total_books |-> 0, books_in_progress |-> 0, books_completed |-> 0,
            books_not_started |-> 0, total_pages_read |-> 0,
            average_progress |-> 0]

\* What is known of the last request: its operation, the id it named, its
\* outcome, the keys and the body of a PUT, the current_page asked of POST or
\* PATCH, and the statistics returned.
Call(op, id, outcome, keys, page, stats) ==
    [op |-> op, id |-> id, outcome |-> outcome, keys |-> keys, data |-> NoData,
     page |-> page, stats |-> stats]

\* The callers whose requests may be in flight at the same time.
Callers == {"a", "b"}

\* A request that writes a stored book: PUT /books/{id} with the body `data`,
\* PATCH /books/{id}/progress with `page`, or update_book_notes with `notes`.
Request(op, data, page, notes) ==
    [op |-> op, data |-> data, page |-> page, notes |-> notes]

NoRequest == Request("none", NoData, NULL, None)

\* The session of a caller: idle before its request, active from the query of
\* the row (db_book, the row as the session loaded it) to the commit, done
\* after it.
Session(state, id, request, db_book) ==
    [state |-> state, id |-> id, request |-> request, db_book |-> db_book]

Init ==
    /\ books = [i \in {} |-> NULL]
    /\ clock = 1
    /\ last = Call("init", NULL, "ok", {}, NULL, NoStats)
    /\ sessions = [c \in Callers |-> Session("idle", NULL, NoRequest, NoData)]

\* The requests that commit nothing when they succeed.
Reads == {"get", "stats"}

\* The last request committed (or none was made yet).  A request that commits
\* nothing is explored as a leaf: it leaves the table and the clock as it found
\* them, so whatever can follow it can follow the write before it, and leads
\* to the same state.
Settled == last.outcome = "ok" /\ last.op \notin Reads

\* The server commits writes while clock <= MaxTime; a request that commits
\* nothing may also follow the last write.
CanCommit == Settled /\ clock <= MaxTime

\* A request that commits writes at the time `clock`, and time has passed
\* before the next request.
Commit(db) ==
    /\ books' = db
    /\ clock' = clock + 1
    /\ UNCHANGED sessions

NoCommit ==
    /\ Settled
    /\ clock <= MaxTime + 1
    /\ UNCHANGED <<books, clock, sessions>>

\* POST /books, the status of the request among `statuses`
CreateBook(statuses) ==
    /\ CanCommit
    /\ Cardinality(DOMAIN books) < MaxBooks
    /\ \E tp \in CreateTotalPages, cp \in CreateCurrentPage, st \in statuses :
        LET id == NewId(books)
        IN  /\ Commit((id :> create_book(id, tp, cp, st, clock)) @@ books)
            /\ last' = Call("create", id, "ok", {}, cp, NoStats)

\* GET /books/{book_id}
GetBook ==
    \E id \in BookIds :
        /\ NoCommit
        /\ last' = Call("get", id, IF id \in DOMAIN books THEN "ok" ELSE "NotFound",
                        {}, NULL, NoStats)

\* get_book without its filter on the id: the request acts on the first row.
NotFound_first_row(op, id) ==
    /\ id \notin DOMAIN books
    /\ DOMAIN books # {}
    /\ CanCommit
    /\ LET first == CHOOSE i \in DOMAIN books : \A j \in DOMAIN books : i <= j
       IN  Commit([books EXCEPT ![first].updated_at = clock])
    /\ last' = Call(op, id, "ok", {}, NULL, NoStats)

\* A request for an id that get_book does not find: the crud function returns
\* None (False for delete) and the handler raises the 404.
NotFound(op, id) ==
    /\ id \notin DOMAIN books
    /\ NoCommit
    /\ last' = Call(op, id, "NotFound", {}, NULL, NoStats)

\* PUT /books/{book_id}, the id not found
UpdateBookNotFound == \E id \in BookIds : NotFound("update", id)

\* PUT /books/{book_id}, a request that raises before or at the commit
UpdateBookRaises ==
    \E id \in DOMAIN books :
        /\ RaisingRequests # {}
        /\ NoCommit
        /\ last' = Call("update", id, "error", {}, NULL, NoStats)

\* PUT /books/{book_id}, a request among `requests` that commits
UpdateBook(requests) ==
    /\ CanCommit
    /\ \E id \in DOMAIN books, update_data \in requests :
        /\ Commit([books EXCEPT
                     ![id] = update_book(books[id], update_data, clock)])
        /\ last' = [Call("update", id, "ok", DOMAIN update_data, NULL, NoStats)
                        EXCEPT !.data = update_data]

\* PATCH /books/{book_id}/progress
UpdateBookProgress ==
    \E id \in BookIds :
        \/ NotFound("progress", id)
        \/ /\ id \in DOMAIN books
           /\ CanCommit
           /\ \E p \in ProgressCurrentPage :
                /\ Commit([books EXCEPT
                             ![id] = update_book_progress(books[id], p, clock)])
                /\ last' = Call("progress", id, "ok", {}, p, NoStats)

\* crud.update_book_notes
UpdateBookNotes ==
    \E id \in BookIds :
        \/ NotFound("notes", id)
        \/ /\ id \in DOMAIN books
           /\ CanCommit
           /\ \E text \in NotesTexts :
                /\ Commit([books EXCEPT
                             ![id] = update_book_notes(books[id], text, clock)])
                /\ last' = Call("notes", id, "ok", {}, NULL, NoStats)

\* DELETE /books/{book_id}
DeleteBook ==
    \E id \in BookIds :
        \/ NotFound("delete", id)
        \/ /\ id \in DOMAIN books
           /\ CanCommit
           /\ Commit(delete_book(books, id))
           /\ last' = Call("delete", id, "ok", {}, NULL, NoStats)

\* GET /stats
GetStats ==
    /\ NoCommit
    /\ last' = Call("stats", NULL, "ok", {}, NULL, get_reading_stats(books))

Next ==
    \/ CreateBook(CreateStatus)
    \/ GetBook
    \/ UpdateBookNotFound
    \/ UpdateBookRaises
    \/ UpdateBook(CommittingRequests)
    \/ UpdateBookProgress
    \/ UpdateBookNotes
    \/ DeleteBook
    \/ GetStats

Spec == Init /\ [][Next]_vars

----------------------------------------------------------------------------
(* The same server, the requests restricted *)

\* PUT bodies whose status, when given, is one of the three literals.
LiteralRequests ==
    {d \in CommittingRequests : "status" \in DOMAIN d => d["status"] \in allowed_statuses}

NextLiteral ==
    \/ CreateBook(CreateStatus)
    \/ GetBook
    \/ UpdateBookNotFound
    \/ UpdateBook(LiteralRequests)
    \/ UpdateBookProgress
    \/ UpdateBookNotes
    \/ DeleteBook
    \/ GetStats

\* Every request passes validation and carries no null.
SpecLiteral == Init /\ [][NextLiteral]_vars

\* PUT bodies without the key status.
NoStatusRequests == {d \in CommittingRequests : "status" \notin DOMAIN d}

NextNoStatus ==
    \/ CreateBook({"not_started"})
    \/ GetBook
    \/ UpdateBookNotFound
    \/ UpdateBook(NoStatusRequests)
    \/ UpdateBookProgress
    \/ UpdateBookNotes
    \/ DeleteBook
    \/ GetStats

\* No request gives a status: POST leaves it to its default (schemas.py line
\* 12) and PUT leaves it unset.
SpecNoStatus == Init /\ [][NextNoStatus]_vars

----------------------------------------------------------------------------
(* Two callers, the handlers run as the event loop runs them *)

MutatingRequests ==
    {Request("update", update_data, NULL, None) : update_data \in CommittingRequests}
        \cup {Request("progress", NoData, p, None) : p \in ProgressCurrentPage}
        \cup {Request("notes", NoData, NULL, text) : text \in NotesTexts}

\* The row the crud function of the request makes of db_book.
Apply(request, db_book, now) ==
    CASE request.op = "update" -> update_book(db_book, request.data, now)
      [] request.op = "progress" -> update_book_progress(db_book, request.page, now)
      [] request.op = "notes" -> update_book_notes(db_book, request.notes, now)

\* db.commit(): the session's UPDATE sets the columns whose value differs
\* from the one it loaded, and leaves the other columns of the row as it
\* finds them.
flush(row, loaded, changed) ==
    [f \in DOMAIN row |-> IF changed[f] # loaded[f] THEN changed[f] ELSE row[f]]

\* The handlers as plain functions: the server runs each in a thread of its
\* pool, and the handler of one caller runs while another's is running.
HandlerRunsInThreadpool(c) == TRUE

\* The handlers are coroutines (async def) that await nothing: the event loop
\* of the one server process runs a handler from its first line to its return
\* before it starts another.
HandlerRunsAlone(c) == \A d \in Callers \ {c} : sessions[d].state # "active"

\* POST /books into the empty table, no handler running.
CreateFirstBook ==
    /\ DOMAIN books = {}
    /\ \A c \in Callers : sessions[c].state = "idle"
    /\ CreateBook(CreateStatus)

\* The handler of caller c starts: get_book loads the row into its session.
BeginRequest(c) ==
    /\ sessions[c].state = "idle"
    /\ HandlerRunsAlone(c)
    /\ \E id \in DOMAIN books, request \in MutatingRequests :
          sessions' = [sessions EXCEPT
                         ![c] = Session("active", id, request, books[id])]
    /\ UNCHANGED <<books, clock, last>>

\* The handler of caller c assigns the attributes of the row it loaded and
\* commits.
FinishRequest(c) ==
    /\ sessions[c].state = "active"
    /\ LET s == sessions[c]
           changed == Apply(s.request, s.db_book, clock)
       IN  /\ books' = [books EXCEPT ![s.id] = flush(@, s.db_book, changed)]
           /\ last' = [Call(s.request.op, s.id, "ok", DOMAIN s.request.data,
                            s.request.page, NoStats)
                         EXCEPT !.data = s.request.data]
           /\ sessions' = [sessions EXCEPT
                             ![c] = Session("done", s.id, NoRequest, NoData)]
    /\ clock' = clock + 1

NextConcurrent ==
    \/ CreateFirstBook
    \/ \E c \in Callers : BeginRequest(c)
    \/ \E c \in Callers : FinishRequest(c)

\* One book, and one writing request of each of two callers.
SpecConcurrent == Init /\ [][NextConcurrent]_vars

----------------------------------------------------------------------------
(* Properties *)

Stored == DOMAIN books

\* The last request was `op`, and it succeeded.
Did(op) == last.op = op /\ last.outcome = "ok"

\* C1: every stored book satisfies 0 <= current_page <= total_pages.
C1_PageWithinTotal ==
    \A i \in Stored :
        0 <= books[i].current_page /\ books[i].current_page <= books[i].total_pages

\* The status that the progress of book b implies.
StatusOfProgress(b) ==
    IF b.current_page = 0 THEN "not_started"
    ELSE IF b.current_page < b.total_pages THEN "in_progress"
    ELSE "completed"

\* C2: when no request gives a status, every stored book's status is the one
\* its progress implies.
C2_StatusFollowsProgress ==
    \A i \in Stored : books[i].status = StatusOfProgress(books[i])

\* C3: the status of every stored book is one of the three literals.
C3_StatusIsLiteral ==
    \A i \in Stored : books[i].status \in allowed_statuses

\* C4: ProgressUpdate(book, 0) leaves current_page 0, status not_started and
\* both started_at and completed_at null.
C4_ProgressZeroResets ==
    (Did("progress") /\ last.page = 0) =>
        LET b == books[last.id]
        IN  /\ b.current_page = 0
            /\ b.status = "not_started"
            /\ b.started_at = NULL
            /\ b.completed_at = NULL

\* A book at page 0 after ProgressUpdate(book, 0) that was created earlier.
C4_Witness ==
    /\ Did("progress")
    /\ last.page = 0
    /\ books[last.id].current_page = 0
    /\ books[last.id].created_at < books[last.id].updated_at

\* C5: ProgressUpdate(book, total_pages) yields status completed and
\* current_page = total_pages; a started_at or completed_at that was set is
\* kept, and one that was null becomes the time of the call.
C5_ProgressToTotalCompletes ==
    [][(/\ last'.op = "progress"
        /\ last'.outcome = "ok"
        /\ last'.id \in Stored
        /\ last'.page = books[last'.id].total_pages)
       => LET old == books[last'.id]
              new == books'[last'.id]
          IN  /\ new.status = "completed"
              /\ new.total_pages = old.total_pages
              /\ new.current_page = old.total_pages
              /\ new.started_at = IF old.started_at # NULL
                                  THEN old.started_at ELSE clock
              /\ new.completed_at = IF old.completed_at # NULL
                                    THEN old.completed_at ELSE clock
              /\ new.started_at # NULL
              /\ new.completed_at # NULL]_vars

\* ProgressUpdate(book, total_pages) has kept an earlier started_at and has
\* set completed_at to the time of the call.
C5_Witness ==
    /\ Did("progress")
    /\ last.page = books[last.id].total_pages
    /\ books[last.id].status = "completed"
    /\ books[last.id].started_at # NULL
    /\ books[last.id].started_at < books[last.id].updated_at
    /\ books[last.id].completed_at = books[last.id].updated_at

\* Books a and b agree on every field but updated_at.
SameButUpdatedAt(a, b) == [a EXCEPT !.updated_at = NULL] = [b EXCEPT !.updated_at = NULL]

\* C6: after ProgressUpdate(book, p), the same ProgressUpdate(book, p) made
\* next changes no field of the book but updated_at.
C6_ProgressIdempotent ==
    Did("progress") =>
        SameButUpdatedAt(update_book_progress(books[last.id], last.page, clock),
                         books[last.id])

\* ProgressUpdate(book, p) has just set started_at and updated_at to the time of
\* its call, which the second call must not move.
C6_Witness ==
    /\ Did("progress")
    /\ last.page > 0
    /\ books[last.id].started_at = books[last.id].updated_at
    /\ books[last.id].updated_at < clock

\* C7: after a GeneralUpdate that sets status = completed and gives no
\* current_page, current_page equals total_pages.
C7_CompletedForcesPage ==
    (/\ Did("update")
     /\ "status" \in last.keys
     /\ "current_page" \notin last.keys
     /\ books[last.id].status = "completed")
    => books[last.id].current_page = books[last.id].total_pages

\* The operations that take an id.
IdOps == {"get", "update", "progress", "notes", "delete"}

\* C8: an operation on an id that is not stored signals NotFound and changes
\* nothing (and NotFound is signalled for no other id).
C8_NotFoundChangesNothing ==
    [][/\ (last'.op \in IdOps /\ last'.id \notin Stored)
            => (last'.outcome = "NotFound" /\ books' = books)
       /\ last'.outcome = "NotFound"
            => (last'.op \in IdOps /\ last'.id \notin Stored /\ books' = books)]_vars

\* NotFound for id 1 after a write: the first book made has id 1, so it was
\* stored and has been deleted.
C8_Witness ==
    /\ last.outcome = "NotFound"
    /\ last.op = "delete"
    /\ last.id = 1
    /\ clock > 1

RECURSIVE PagesUpTo(_)
\* The sum of current_page over the stored books with id <= k.
PagesUpTo(k) ==
    IF k = 0 THEN 0
    ELSE (IF k \in Stored THEN books[k].current_page ELSE 0) + PagesUpTo(k - 1)

WithStatus(status) == {i \in Stored : books[i].status = status}

\* C9: stats() counts the stored books, the stored books of each of the three
\* statuses, and sums current_page; it changes no book.
C9_StatsCounts ==
    [][(last'.op = "stats")
       => /\ books' = books
          /\ last'.stats.total_books = Cardinality(Stored)
          /\ last'.stats.books_not_started = Cardinality(WithStatus("not_started"))
          /\ last'.stats.books_in_progress = Cardinality(WithStatus("in_progress"))
          /\ last'.stats.books_completed = Cardinality(WithStatus("completed"))
          /\ last'.stats.total_pages_read = PagesUpTo(NewId(books) - 1)]_vars

\* stats() over a book with pages read and none of the three statuses.
C9_Witness ==
    /\ Did("stats")
    /\ last.stats.total_books = 1
    /\ last.stats.total_pages_read > 0
    /\ last.stats.books_not_started + last.stats.books_in_progress
         + last.stats.books_completed = 0

RECURSIVE Factorial(_)
Factorial(n) == IF n = 0 THEN 1 ELSE n * Factorial(n - 1)

\* A common denominator of the progress of every book.
PagesDenominator == Factorial(MaxPages)

RECURSIVE ProgressUpTo(_)
\* The sum over the stored books with id <= k of current_page / total_pages
\* x 100, times PagesDenominator.
ProgressUpTo(k) ==
    IF k = 0 THEN 0
    ELSE (IF k \in Stored /\ books[k].total_pages # 0
          THEN books[k].current_page * 100
                 * (PagesDenominator \div books[k].total_pages)
          ELSE 0) + ProgressUpTo(k - 1)

\* h hundredths is num / den rounded to 2 decimal places.
IsRounded2(h, num, den) ==
    LET d == 100 * num - h * den IN 2 * d <= den /\ 2 * (0 - d) <= den

\* C10: stats().average_progress is the mean progress percentage of the stored
\* books rounded to 2 decimal places, and with no book every figure is 0.
C10_AverageProgress ==
    Did("stats") =>
        IF Stored = {}
        THEN last.stats = NoStats
        ELSE IsRounded2(last.stats.average_progress, ProgressUpTo(NewId(books) - 1),
                        PagesDenominator * Cardinality(Stored))

\* Two books, one at half of its pages and one at all of them: 75.0.
C10_Witness ==
    /\ Did("stats")
    /\ Cardinality(Stored) = 2
    /\ \E i, j \in Stored :
          /\ 2 * books[i].current_page = books[i].total_pages
          /\ books[j].current_page = books[j].total_pages
    /\ last.stats.average_progress = 7500

\* The request last' names is a successful `op` on a book stored before it.
Does(op) ==
    /\ last'.op = op
    /\ last'.outcome = "ok"
    /\ last'.id \in Stored

\* C12: a ProgressUpdate, or a GeneralUpdate that supplies current_page, on a
\* book whose completed_at is set, that leaves current_page < total_pages,
\* leaves completed_at null.
C12_RegressionClearsCompletedAt ==
    [][(/\ Does("progress") \/ (Does("update") /\ "current_page" \in last'.keys)
        /\ books[last'.id].completed_at # NULL
        /\ books'[last'.id].current_page < books'[last'.id].total_pages)
       => books'[last'.id].completed_at = NULL]_vars

\* C13: a started_at that is set changes in no step but a ProgressUpdate of
\* that book with page 0, which sets it to null: no Create, GeneralUpdate,
\* NotesUpdate or ProgressUpdate with a page > 0 changes it.
C13_StartedAtKept ==
    [][\A i \in Stored \cap DOMAIN books' :
          (books[i].started_at # NULL /\ books'[i].started_at # books[i].started_at)
          => /\ Does("progress")
             /\ last'.id = i
             /\ Min(last'.page, books[i].total_pages) = 0
             /\ books'[i].started_at = NULL]_vars

\* A GeneralUpdate has taken a started book back to page 0 and not_started,
\* and its started_at is the one it had.
C13_Witness ==
    /\ Did("update")
    /\ "current_page" \in last.keys
    /\ books[last.id].current_page = 0
    /\ books[last.id].status = "not_started"
    /\ books[last.id].started_at # NULL
    /\ books[last.id].started_at < books[last.id].updated_at

Max(a, b) == IF a > b THEN a ELSE b

\* C14: ProgressUpdate of a stored book succeeds for every requested page p,
\* stores current_page = max(0, min(p, total_pages)) and the status that this
\* page implies, whatever the status was.
C14_ProgressClamps ==
    [][(last'.op = "progress" /\ last'.id \in Stored)
       => LET old == books[last'.id]
              new == books'[last'.id]
          IN  /\ last'.outcome = "ok"
              /\ new.total_pages = old.total_pages
              /\ new.current_page = Max(0, Min(last'.page, old.total_pages))
              /\ new.status = StatusOfProgress(new)]_vars

\* ProgressUpdate with a page beyond total_pages has stored total_pages.
C14_Witness ==
    /\ Did("progress")
    /\ last.page > books[last.id].total_pages
    /\ books[last.id].current_page = books[last.id].total_pages
    /\ books[last.id].status = "completed"

\* C15: for 0 < p < total_pages, ProgressUpdate(book, p) yields status
\* in_progress, current_page = p, completed_at null, and started_at as it was
\* if it was set, else the time of the call.
C15_ProgressInside ==
    [][(/\ Does("progress")
        /\ 0 < last'.page
        /\ last'.page < books[last'.id].total_pages)
       => LET old == books[last'.id]
              new == books'[last'.id]
          IN  /\ new.status = "in_progress"
              /\ new.current_page = last'.page
              /\ new.completed_at = NULL
              /\ new.started_at = IF old.started_at # NULL
                                  THEN old.started_at ELSE clock]_vars

\* ProgressUpdate with a page inside the book has set started_at to the time
\* of its call.
C15_Witness ==
    /\ Did("progress")
    /\ 0 < last.page
    /\ last.page < books[last.id].total_pages
    /\ books[last.id].status = "in_progress"
    /\ books[last.id].completed_at = NULL
    /\ books[last.id].created_at < books[last.id].updated_at
    /\ books[last.id].started_at = books[last.id].updated_at

\* The value the body of the last PUT gives for key k, or the row's.
Given(k, row) == IF k \in last'.keys THEN last'.data[k] ELSE row[k]

\* C16: a GeneralUpdate that supplies current_page and no status stores that
\* current_page and derives the status from it against the total_pages of the
\* request, or the book's when the request has none: 0 gives not_started and
\* changes no timestamp, 0 < page < total gives in_progress and sets
\* started_at only if unset, page >= total gives completed and sets
\* completed_at only if unset.
C16_PageDerivesStatus ==
    [][(/\ Does("update")
        /\ "current_page" \in last'.keys
        /\ "status" \notin last'.keys)
       => LET old == books[last'.id]
              new == books'[last'.id]
              page == last'.data["current_page"]
              total == Given("total_pages", old)
          IN  /\ new.current_page = page
              /\ new.total_pages = total
              /\ page = 0 =>
                    /\ new.status = "not_started"
                    /\ new.started_at = old.started_at
                    /\ new.completed_at = old.completed_at
              /\ (0 < page /\ page < total) =>
                    /\ new.status = "in_progress"
                    /\ new.started_at = IF old.started_at # NULL
                                        THEN old.started_at ELSE clock
                    /\ new.completed_at = old.completed_at
              /\ page >= total =>
                    /\ new.status = "completed"
                    /\ new.started_at = old.started_at
                    /\ new.completed_at = IF old.completed_at # NULL
                                          THEN old.completed_at ELSE clock]_vars

\* A PUT that gives current_page 1 and total_pages 2: the page is inside the
\* total of the request, and the book is in_progress since this call.
C16_Witness ==
    /\ Did("update")
    /\ last.keys = {"current_page", "total_pages"}
    /\ last.data["current_page"] = 1
    /\ last.data["total_pages"] = 2
    /\ books[last.id].status = "in_progress"
    /\ books[last.id].started_at = books[last.id].updated_at
    /\ books[last.id].created_at < books[last.id].updated_at

C18_CreateReconciles ==
    [][(last'.op = "create")
       => LET id == last'.id
              new == books'[id]
          IN  /\ last'.outcome = "ok"
              /\ id \notin Stored
              /\ DOMAIN books' = Stored \cup {id}
              /\ \A i \in Stored : books'[i] = books[i]
              /\ new.id = id
              /\ new.status \in allowed_statuses
              /\ (new.status = "not_started" /\ last'.page = 0) =>
                    /\ new.current_page = 0
                    /\ new.started_at = NULL
                    /\ new.completed_at = NULL
              /\ new.status = "in_progress" =>
                    /\ new.started_at = clock
                    /\ new.current_page = last'.page
              /\ new.status = "completed" =>
                    /\ new.completed_at = clock
                    /\ new.current_page = new.total_pages]_vars

\* A second book created completed from an input whose current_page was
\* below total_pages.
C18_Witness ==
    /\ Did("create")
    /\ Cardinality(Stored) = 2
    /\ last.page < books[last.id].total_pages
    /\ books[last.id].status = "completed"
    /\ books[last.id].current_page = books[last.id].total_pages
    /\ books[last.id].completed_at = books[last.id].created_at

\* Books a and b agree on every field but notes and updated_at.
SameButNotes(a, b) ==
    [a EXCEPT !.notes = None, !.updated_at = NULL]
        = [b EXCEPT !.notes = None, !.updated_at = NULL]

\* C19: NotesUpdate of a stored book changes its notes and updated_at and
\* nothing else, of that book or of any other; a GeneralUpdate with empty
\* partial_fields changes nothing but the book's updated_at.
C19_NotesFrame ==
    [][/\ Does("notes") =>
            /\ DOMAIN books' = Stored
            /\ \A i \in Stored \ {last'.id} : books'[i] = books[i]
            /\ SameButNotes(books'[last'.id], books[last'.id])
            /\ books'[last'.id].updated_at = clock
       /\ (Does("update") /\ last'.keys = {}) =>
            /\ DOMAIN books' = Stored
            /\ \A i \in Stored \ {last'.id} : books'[i] = books[i]
            /\ SameButUpdatedAt(books'[last'.id], books[last'.id])
            /\ books'[last'.id].updated_at = clock]_vars

\* NotesUpdate has written the notes of a book that was created in_progress
\* at a page > 0: its progress, status and started_at are those of its
\* creation.
C19_Witness ==
    /\ Did("notes")
    /\ books[last.id].notes = "n1"
    /\ books[last.id].status = "in_progress"
    /\ books[last.id].current_page > 0
    /\ books[last.id].started_at = books[last.id].created_at
    /\ books[last.id].created_at < books[last.id].updated_at

\* C20: every stored book with status in_progress has a started_at, and every
\* stored book with status completed has a completed_at.
C20_StatusHasTimestamp ==
    \A i \in Stored :
        /\ books[i].status = "in_progress" => books[i].started_at # NULL
        /\ books[i].status = "completed" => books[i].completed_at # NULL

\* A PUT that gives status in_progress, and nothing the status could be
\* derived from, has stamped the started_at of a book created earlier.
C20_Witness ==
    /\ Did("update")
    /\ last.keys = {"status"}
    /\ books[last.id].status = "in_progress"
    /\ books[last.id].current_page = 0
    /\ books[last.id].started_at = books[last.id].updated_at
    /\ books[last.id].created_at < books[last.id].updated_at

C21_StartedBeforeCompleted ==
    \A i \in Stored :
        (books[i].started_at # NULL /\ books[i].completed_at # NULL)
        => books[i].started_at <= books[i].completed_at

====
